---- MODULE Spec2Model ----
(***************************************************************************)
(* Betting engine of the poker trainer: the game-state hook                *)
(* (src/src/hooks/useGameState.ts), the rules it calls                     *)
(* (src/src/utils/pokerLogic.ts) and the deck hook it deals through; the   *)
(* hand evaluator (src/src/utils/handEvaluator.ts) and the opponents'      *)
(* decisions (src/src/services/ai/AIOpponent.ts), each studied as a pure   *)
(* function through the variables call and returned.                       *)
(*                                                                         *)
(* Chip amounts are counted in half chips, so that the small blind of 0.5  *)
(* is the integer 1 and the big blind of 1 is the integer 2.  The engine   *)
(* only adds, subtracts and compares amounts, which is exact under this    *)
(* scaling.  Seats are numbered from 0 as in the source.                   *)
(***************************************************************************)
EXTENDS Integers, Sequences, FiniteSets, TLC

\* gameState    the GameState held by useGameState
\* deck         the deck held by useDeck, as seen by the current render
\* startStacks  history: the stacks the players brought into the current hand
\* steps        history: the number of handlePlayerAction calls made so far
\* deckError    dealCards has thrown 'Not enough cards in deck'
\* call         a call of one of the pure functions: its name and arguments
\* returned     what that call returned
VARIABLES gameState, deck, startStacks, steps, deckError, call, returned

vars == <<gameState, deck, startStacks, steps, deckError, call, returned>>

table == <<gameState, deck, startStacks, steps, deckError>>

\* ------------------------------------------------------------------ bounds
\* Number of handlePlayerAction calls explored by Spec.
MaxSteps == 6
\* Number of handlePlayerAction calls explored by SpecPassive.
MaxPassiveSteps == 9
\* Number of handlePlayerAction calls explored by SpecFold: enough folded
\* hands to deal two cards 27 times.
MaxFoldSteps == 26
\* Seat counts of SpecPassive (the hook itself always seats 4).
SeatCounts == {2, 3, 4}
\* Starting stacks of the hero, in big blinds, sampled from the range of
\* generateRandomStack; the opponents start at the bottom of the range, so
\* the table is seen with equal and with unequal stacks.
StackSampleBB == {30, 31}

\* --------------------------------------------------------------- constants
SMALL_BLIND == 1
BIG_BLIND == 2
DeckSize == 52

Min(a, b) == IF a <= b THEN a ELSE b
Max(a, b) == IF a >= b THEN a ELSE b

\* ------------------------------------------------------------ pokerLogic.ts
calculateMinRaise(currentBet, lastRaise, bigBlind) ==
    currentBet + Max(lastRaise, bigBlind)

canCheck(player, currentBet) == player.currentBet = currentBet

getCallAmount(player, currentBet) ==
    Min(currentBet - player.currentBet, player.stack)

playerCount(players) == Cardinality(DOMAIN players)

activeSeats(players) ==
    {i \in DOMAIN players : ~players[i].isFolded /\ ~players[i].isAllIn}

isBettingRoundComplete(players, currentBet) ==
    IF Cardinality(activeSeats(players)) = 0 THEN TRUE
    ELSE IF Cardinality(activeSeats(players)) = 1 THEN TRUE
    ELSE \A i \in activeSeats(players) : players[i].currentBet = currentBet

RECURSIVE nextPlayerLoop(_, _, _)
nextPlayerLoop(players, nextIndex, attempts) ==
    IF (players[nextIndex].isFolded \/ players[nextIndex].isAllIn)
          /\ attempts < playerCount(players)
    THEN nextPlayerLoop(players, (nextIndex + 1) % playerCount(players), attempts + 1)
    ELSE nextIndex

getNextPlayerIndex(players, currentIndex) ==
    nextPlayerLoop(players, (currentIndex + 1) % playerCount(players), 0)

getActivePlayers(players) == {i \in DOMAIN players : ~players[i].isFolded}

RECURSIVE sumBets(_, _)
sumBets(players, among) ==
    IF among = {} THEN 0
    ELSE LET i == CHOOSE j \in among : TRUE
         IN players[i].currentBet + sumBets(players, among \ {i})

collectBets(players) ==
    [players |-> [i \in DOMAIN players |-> [players[i] EXCEPT !.currentBet = 0]],
     pot     |-> sumBets(players, DOMAIN players)]

\* A variant of getBlindPositions without the heads-up case.
getBlindPositionsRing(count, dealerIndex) ==
    [dealer |-> dealerIndex,
     smallBlind |-> (dealerIndex + 1) % count,
     bigBlind |-> (dealerIndex + 2) % count]

getBlindPositions(count, dealerIndex) ==
    IF count = 2
    THEN [dealer |-> dealerIndex,
          smallBlind |-> dealerIndex,
          bigBlind |-> (dealerIndex + 1) % count]
    ELSE [dealer |-> dealerIndex,
          smallBlind |-> (dealerIndex + 1) % count,
          bigBlind |-> (dealerIndex + 2) % count]

getFirstPreFlopPlayer(count, bigBlindIndex) == (bigBlindIndex + 1) % count

getFirstPostFlopPlayer(count, dealerIndex) ==
    IF count = 2 THEN dealerIndex ELSE (dealerIndex + 1) % count

generateRandomStack(minBB, maxBB, bigBlind) ==
    {bbCount * bigBlind : bbCount \in minBB..maxBB}

isHandOver(players) == Cardinality(getActivePlayers(players)) <= 1

\* processPlayerAction with an all-in that always becomes the table's bet.
processPlayerActionAllInSetsBet(action, player, gs) ==
    CASE action.type = "fold" ->
           [updatedPlayer |-> [player EXCEPT !.isFolded = TRUE],
            potIncrease   |-> 0,
            newCurrentBet |-> gs.currentBet]
      [] action.type = "check" ->
           [updatedPlayer |-> player,
            potIncrease   |-> 0,
            newCurrentBet |-> gs.currentBet]
      [] action.type = "call" ->
           LET callAmount == Min(gs.currentBet - player.currentBet, player.stack)
               newStack   == player.stack - callAmount
           IN [updatedPlayer |-> [player EXCEPT
                                    !.stack = newStack,
                                    !.currentBet = player.currentBet + callAmount,
                                    !.isAllIn = IF newStack = 0 THEN TRUE ELSE player.isAllIn],
               potIncrease   |-> callAmount,
               newCurrentBet |-> gs.currentBet]
      [] action.type = "raise" ->
           LET raiseAmount      == Min(action.amount, player.stack)
               totalBet         == raiseAmount
               additionalAmount == totalBet - player.currentBet
               newStack         == player.stack - additionalAmount
           IN [updatedPlayer |-> [player EXCEPT
                                    !.stack = newStack,
                                    !.currentBet = totalBet,
                                    !.isAllIn = IF newStack = 0 THEN TRUE ELSE player.isAllIn],
               potIncrease   |-> additionalAmount,
               newCurrentBet |-> totalBet]
      [] action.type = "all-in" ->
           LET allInAmount == player.stack
               newBet      == player.currentBet + allInAmount
           IN [updatedPlayer |-> [player EXCEPT
                                    !.stack = 0,
                                    !.currentBet = newBet,
                                    !.isAllIn = TRUE],
               potIncrease   |-> allInAmount,
               newCurrentBet |-> newBet]

\* processPlayerAction with a check that pays what is owed, as a call does.
processPlayerActionCheckCalls(action, player, gs) ==
    CASE action.type = "fold" ->
           [updatedPlayer |-> [player EXCEPT !.isFolded = TRUE],
            potIncrease   |-> 0,
            newCurrentBet |-> gs.currentBet]
      [] action.type = "check" /\ canCheck(player, gs.currentBet) ->
           [updatedPlayer |-> player,
            potIncrease   |-> 0,
            newCurrentBet |-> gs.currentBet]
      [] action.type \in {"check", "call"} ->
           LET callAmount == Min(gs.currentBet - player.currentBet, player.stack)
               newStack   == player.stack - callAmount
           IN [updatedPlayer |-> [player EXCEPT
                                    !.stack = newStack,
                                    !.currentBet = player.currentBet + callAmount,
                                    !.isAllIn = IF newStack = 0 THEN TRUE ELSE player.isAllIn],
               potIncrease   |-> callAmount,
               newCurrentBet |-> gs.currentBet]
      [] action.type = "raise" ->
           LET raiseAmount      == Min(action.amount, player.stack)
               totalBet         == raiseAmount
               additionalAmount == totalBet - player.currentBet
               newStack         == player.stack - additionalAmount
           IN [updatedPlayer |-> [player EXCEPT
                                    !.stack = newStack,
                                    !.currentBet = totalBet,
                                    !.isAllIn = IF newStack = 0 THEN TRUE ELSE player.isAllIn],
               potIncrease   |-> additionalAmount,
               newCurrentBet |-> totalBet]
      [] action.type = "all-in" ->
           LET allInAmount == player.stack
               newBet      == player.currentBet + allInAmount
           IN [updatedPlayer |-> [player EXCEPT
                                    !.stack = 0,
                                    !.currentBet = newBet,
                                    !.isAllIn = TRUE],
               potIncrease   |-> allInAmount,
               newCurrentBet |-> IF newBet > gs.currentBet THEN newBet ELSE gs.currentBet]

processPlayerAction(action, player, gs) ==
    CASE action.type = "fold" ->
           [updatedPlayer |-> [player EXCEPT !.isFolded = TRUE],
            potIncrease   |-> 0,
            newCurrentBet |-> gs.currentBet]
      [] action.type = "check" ->
           [updatedPlayer |-> player,
            potIncrease   |-> 0,
            newCurrentBet |-> gs.currentBet]
      [] action.type = "call" ->
           LET callAmount == Min(gs.currentBet - player.currentBet, player.stack)
               newStack   == player.stack - callAmount
           IN [updatedPlayer |-> [player EXCEPT
                                    !.stack = newStack,
                                    !.currentBet = player.currentBet + callAmount,
                                    !.isAllIn = IF newStack = 0 THEN TRUE ELSE player.isAllIn],
               potIncrease   |-> callAmount,
               newCurrentBet |-> gs.currentBet]
      [] action.type = "raise" ->
           LET raiseAmount      == Min(action.amount, player.stack)
               totalBet         == raiseAmount
               additionalAmount == totalBet - player.currentBet
               newStack         == player.stack - additionalAmount
           IN [updatedPlayer |-> [player EXCEPT
                                    !.stack = newStack,
                                    !.currentBet = totalBet,
                                    !.isAllIn = IF newStack = 0 THEN TRUE ELSE player.isAllIn],
               potIncrease   |-> additionalAmount,
               newCurrentBet |-> totalBet]
      [] action.type = "all-in" ->
           LET allInAmount == player.stack
               newBet      == player.currentBet + allInAmount
           IN [updatedPlayer |-> [player EXCEPT
                                    !.stack = 0,
                                    !.currentBet = newBet,
                                    !.isAllIn = TRUE],
               potIncrease   |-> allInAmount,
               newCurrentBet |-> IF newBet > gs.currentBet THEN newBet ELSE gs.currentBet]

\* -------------------------------------------------- deckUtils.ts, useDeck
\* createShuffledDeck: cards are named by their place in the shuffled deck of
\* the first render, so that deck is <<1, ..., 52>>.
createShuffledDeck == [i \in 1..DeckSize |-> i]

\* dealCards throws when count > deck.length; ok is FALSE then.
dealCards(dk, count) ==
    [ok            |-> count <= Len(dk),
     cards         |-> SubSeq(dk, 1, Min(count, Len(dk))),
     remainingDeck |-> SubSeq(dk, Min(count, Len(dk)) + 1, Len(dk))]

\* ----------------------------------------------------------- useGameState.ts
\* A variant of getNextBettingRound that goes from the flop to the river.
getNextBettingRoundSkippingTurn(current) ==
    CASE current = "preflop" -> "flop"
      [] current = "flop"    -> "river"
      [] current = "turn"    -> "river"
      [] current = "river"   -> "complete"
      [] OTHER               -> "complete"

getNextBettingRound(current) ==
    CASE current = "preflop" -> "flop"
      [] current = "flop"    -> "turn"
      [] current = "turn"    -> "river"
      [] current = "river"   -> "complete"
      [] OTHER               -> "complete"

newPlayer(stack) ==
    [stack |-> stack, holeCards |-> <<>>, currentBet |-> 0,
     isFolded |-> FALSE, isAllIn |-> FALSE]

initializeGame(stacks) ==
    LET blinds == getBlindPositions(playerCount(stacks), 0)
    IN [phase |-> "waiting",
        bettingRound |-> "preflop",
        pot |-> 0,
        communityCards |-> <<>>,
        players |-> [i \in DOMAIN stacks |-> newPlayer(stacks[i])],
        currentPlayerIndex |-> 0,
        dealerButtonIndex |-> blinds.dealer,
        smallBlindIndex |-> blinds.smallBlind,
        bigBlindIndex |-> blinds.bigBlind,
        currentBet |-> 0,
        minRaise |-> BIG_BLIND * 2,
        actionHistory |-> <<>>]

\* A variant of postBlind that posts the blind in full whatever the stack.
postBlindUncapped(player, blind) ==
    [player EXCEPT !.stack = player.stack - blind,
                   !.currentBet = blind,
                   !.isAllIn = (player.stack = blind)]

\* The blind posted by one seat: capped at the stack, all-in when the stack
\* equals the post.
postBlind(player, blind) ==
    LET amount == Min(blind, player.stack)
    IN [player EXCEPT !.stack = player.stack - amount,
                      !.currentBet = amount,
                      !.isAllIn = (player.stack = amount)]

\* The state returned by startNewHand's updater.  deal is a callback that
\* closes over the deck of the render that created it, so every deal(2) of
\* the updater reads that same deck dk and hands out its first two cards.
startNewHandState(prev, dk) ==
    LET count          == playerCount(prev.players)
        newDealerIndex == (prev.dealerButtonIndex + 1) % count
        blinds         == getBlindPositions(count, newDealerIndex)
        resetPlayers   == [i \in DOMAIN prev.players |->
                             [prev.players[i] EXCEPT !.holeCards = <<>>,
                                                     !.currentBet = 0,
                                                     !.isFolded = FALSE,
                                                     !.isAllIn = FALSE]]
        playersWithCards == [i \in DOMAIN prev.players |->
                               [resetPlayers[i] EXCEPT
                                  !.holeCards = dealCards(dk, 2).cards]]
        updatedPlayers == [i \in DOMAIN prev.players |->
                             IF i = blinds.smallBlind
                             THEN postBlind(playersWithCards[i], SMALL_BLIND)
                             ELSE IF i = blinds.bigBlind
                             THEN postBlind(playersWithCards[i], BIG_BLIND)
                             ELSE playersWithCards[i]]
        firstPlayer    == getFirstPreFlopPlayer(count, blinds.bigBlind)
    IN [prev EXCEPT !.phase = "betting",
                    !.bettingRound = "preflop",
                    !.pot = 0,
                    !.communityCards = <<>>,
                    !.players = updatedPlayers,
                    !.currentPlayerIndex = firstPlayer,
                    !.dealerButtonIndex = newDealerIndex,
                    !.smallBlindIndex = blinds.smallBlind,
                    !.bigBlindIndex = blinds.bigBlind,
                    !.currentBet = BIG_BLIND,
                    !.minRaise = BIG_BLIND * 2,
                    !.actionHistory = <<>>]

actionRecord(prev, action) ==
    [player |-> prev.currentPlayerIndex,
     action |-> action.type,
     amount |-> action.amount,
     bettingRound |-> prev.bettingRound]

\* A variant of handOverState that sweeps the street bets into the pot.
handOverStateCollecting(prev, updatedPlayers, newPot, newCurrentBet, newMinRaise, rec) ==
    [prev EXCEPT !.phase = "showdown",
                 !.players = collectBets(updatedPlayers).players,
                 !.pot = newPot + collectBets(updatedPlayers).pot,
                 !.currentBet = newCurrentBet,
                 !.minRaise = newMinRaise,
                 !.actionHistory = Append(prev.actionHistory, rec)]

\* Only one player left: straight to showdown.
handOverState(prev, updatedPlayers, newPot, newCurrentBet, newMinRaise, rec) ==
    [prev EXCEPT !.phase = "showdown",
                 !.players = updatedPlayers,
                 !.pot = newPot,
                 !.currentBet = newCurrentBet,
                 !.minRaise = newMinRaise,
                 !.actionHistory = Append(prev.actionHistory, rec)]

\* The river is complete: showdown.
showdownState(prev, playersAfterCollection, totalPot, rec) ==
    [prev EXCEPT !.phase = "showdown",
                 !.players = playersAfterCollection,
                 !.pot = totalPot,
                 !.currentBet = 0,
                 !.actionHistory = Append(prev.actionHistory, rec)]

\* A variant of nextStreetState that carries minRaise over to the new street.
nextStreetStateKeepingMinRaise(prev, nextRound, newCommunityCards, playersAfterCollection, totalPot, firstPlayer, rec) ==
    [prev EXCEPT !.bettingRound = nextRound,
                 !.communityCards = newCommunityCards,
                 !.players = playersAfterCollection,
                 !.pot = totalPot,
                 !.currentBet = 0,
                 !.currentPlayerIndex = firstPlayer,
                 !.actionHistory = Append(prev.actionHistory, rec)]

\* The street is complete and another street follows.
nextStreetState(prev, nextRound, newCommunityCards, playersAfterCollection, totalPot, firstPlayer, rec) ==
    [prev EXCEPT !.bettingRound = nextRound,
                 !.communityCards = newCommunityCards,
                 !.players = playersAfterCollection,
                 !.pot = totalPot,
                 !.currentBet = 0,
                 !.minRaise = BIG_BLIND,
                 !.currentPlayerIndex = firstPlayer,
                 !.actionHistory = Append(prev.actionHistory, rec)]

\* A variant of nextPlayerState that keeps only the new record.
nextPlayerStateDroppingHistory(prev, updatedPlayers, newPot, newCurrentBet, newMinRaise, nextPlayerIndex, rec) ==
    [prev EXCEPT !.players = updatedPlayers,
                 !.pot = newPot,
                 !.currentBet = newCurrentBet,
                 !.minRaise = newMinRaise,
                 !.currentPlayerIndex = nextPlayerIndex,
                 !.actionHistory = <<rec>>]

\* The street goes on with the next player.
nextPlayerState(prev, updatedPlayers, newPot, newCurrentBet, newMinRaise, nextPlayerIndex, rec) ==
    [prev EXCEPT !.players = updatedPlayers,
                 !.pot = newPot,
                 !.currentBet = newCurrentBet,
                 !.minRaise = newMinRaise,
                 !.currentPlayerIndex = nextPlayerIndex,
                 !.actionHistory = Append(prev.actionHistory, rec)]

\* Cards the updater of handlePlayerAction deals for the next street.
streetDeal(nextRound, dk) ==
    IF nextRound = "flop" THEN dealCards(dk, 3)
    ELSE IF nextRound = "turn" \/ nextRound = "river" THEN dealCards(dk, 1)
    ELSE dealCards(dk, 0)

\* The updater of handlePlayerAction: the next game state, the deck it leaves
\* and whether dealCards threw.
handlePlayerActionResult(prev, action, dk) ==
    LET currentPlayer  == prev.players[prev.currentPlayerIndex]
        res            == processPlayerAction(action, currentPlayer, prev)
        updatedPlayers == [prev.players EXCEPT ![prev.currentPlayerIndex] = res.updatedPlayer]
        rec            == actionRecord(prev, action)
        newPot         == prev.pot + res.potIncrease
        newMinRaise    == calculateMinRaise(res.newCurrentBet,
                                            res.newCurrentBet - prev.currentBet,
                                            BIG_BLIND)
        collected      == collectBets(updatedPlayers)
        totalPot       == newPot + collected.pot
        nextRound      == getNextBettingRound(prev.bettingRound)
        dealt          == streetDeal(nextRound, dk)
        newCommunityCards ==
            IF nextRound = "flop" THEN dealt.cards
            ELSE prev.communityCards \o dealt.cards
        firstPlayer    == getFirstPostFlopPlayer(playerCount(collected.players),
                                                 prev.dealerButtonIndex)
    IN IF isHandOver(updatedPlayers)
       THEN [state |-> handOverState(prev, updatedPlayers, newPot,
                                     res.newCurrentBet, newMinRaise, rec),
             deck |-> dk, threw |-> FALSE]
       ELSE IF isBettingRoundComplete(updatedPlayers, res.newCurrentBet)
       THEN IF nextRound = "complete"
            THEN [state |-> showdownState(prev, collected.players, totalPot, rec),
                  deck |-> dk, threw |-> FALSE]
            ELSE [state |-> nextStreetState(prev, nextRound, newCommunityCards,
                                            collected.players, totalPot,
                                            firstPlayer, rec),
                  deck |-> dealt.remainingDeck, threw |-> ~dealt.ok]
       ELSE [state |-> nextPlayerState(prev, updatedPlayers, newPot,
                                       res.newCurrentBet, newMinRaise,
                                       getNextPlayerIndex(updatedPlayers,
                                                          prev.currentPlayerIndex),
                                       rec),
             deck |-> dk, threw |-> FALSE]

\* ------------------------------------------------------------------ inputs
\* The actions a caller hands to handlePlayerAction for the seat to act.  The
\* hero's controls send the table bet with a call, the opponents send the
\* amount to call; raises name a total of 0, the minimum raise or the whole
\* of the player's chips.
callInput(gs) ==
    LET p == gs.players[gs.currentPlayerIndex]
    IN IF gs.currentPlayerIndex = 0 THEN gs.currentBet
       ELSE gs.currentBet - p.currentBet

raiseInputs(gs) ==
    LET p == gs.players[gs.currentPlayerIndex]
    IN {0, gs.minRaise, p.stack + p.currentBet}

passiveInputs(gs) ==
    {[type |-> "fold", amount |-> 0],
     [type |-> "check", amount |-> 0],
     [type |-> "call", amount |-> callInput(gs)]}

allInputs(gs) ==
    passiveInputs(gs)
      \cup {[type |-> "raise", amount |-> a] : a \in raiseInputs(gs)}
      \cup {[type |-> "all-in", amount |-> gs.players[gs.currentPlayerIndex].stack]}

stacksOf(players) == [i \in DOMAIN players |-> players[i].stack]

\* ----------------------------------------------------------------- actions
\* No pure function is under study / the call has not returned yet.
NoCall == [fn |-> "none"]
NoReturn == [type |-> "none"]

InitSeats(seatCounts) ==
    /\ \E count \in seatCounts :
         \E heroStack \in generateRandomStack(30, 200, BIG_BLIND)
                             \cap {bb * BIG_BLIND : bb \in StackSampleBB} :
            LET stacks == [i \in 0..(count - 1) |->
                             IF i = 0 THEN heroStack ELSE 30 * BIG_BLIND]
            IN /\ gameState = initializeGame(stacks)
               /\ startStacks = stacks
    /\ deck = createShuffledDeck
    /\ steps = 0
    /\ deckError = FALSE
    /\ call = NoCall
    /\ returned = NoReturn

Init == InitSeats({4})

InitPassive == InitSeats(SeatCounts)

\* startNewHand, offered by the App while the phase is waiting or showdown.
\* shuffleNewDeck queues setDeck(fresh deck) first; the deal(2) calls of the
\* state updater then each queue setDeck(deck of this render minus two cards),
\* and the last queued value is the deck of the next render.  A dealCards
\* that throws does so inside the state updater: the error escapes the render,
\* React unmounts the tree (the App has no error boundary) and no further
\* handler runs.
startNewHand ==
    /\ gameState.phase \in {"waiting", "showdown"}
    /\ ~deckError
    /\ IF dealCards(deck, 2).ok
       THEN /\ gameState' = startNewHandState(gameState, deck)
            /\ deck' = dealCards(deck, 2).remainingDeck
            /\ startStacks' = stacksOf(gameState.players)
            /\ UNCHANGED deckError
       ELSE /\ deckError' = TRUE
            /\ UNCHANGED <<gameState, deck, startStacks>>
    /\ UNCHANGED <<steps, call, returned>>

\* One call of handlePlayerAction for the seat at currentPlayerIndex.  The
\* hero's controls and the opponents' timer only exist in the betting phase.
applyAction(action, bound) ==
    /\ gameState.phase = "betting"
    /\ steps < bound
    /\ ~deckError
    /\ LET r == handlePlayerActionResult(gameState, action, deck)
       IN IF r.threw
          THEN /\ deckError' = TRUE
               /\ UNCHANGED <<gameState, deck>>
          ELSE /\ gameState' = r.state
               /\ deck' = r.deck
               /\ UNCHANGED deckError
    /\ steps' = steps + 1
    /\ UNCHANGED <<startStacks, call, returned>>

handlePlayerAction ==
    \E action \in allInputs(gameState) : applyAction(action, MaxSteps)

handlePassiveAction ==
    \E action \in passiveInputs(gameState) : applyAction(action, MaxPassiveSteps)

handleFold ==
    applyAction([type |-> "fold", amount |-> 0], MaxFoldSteps)

Next == startNewHand \/ handlePlayerAction

NextPassive == startNewHand \/ handlePassiveAction

NextFold == startNewHand \/ handleFold

Spec == Init /\ [][Next]_vars

SpecPassive == InitPassive /\ [][NextPassive]_vars

\* Hands that are folded round to the last player, one after the other.
SpecFold == InitPassive /\ [][NextFold]_vars

\* ------------------------------------------------------------------- types
TypeOK ==
    /\ gameState.phase \in {"waiting", "betting", "showdown"}
    /\ gameState.bettingRound \in {"preflop", "flop", "turn", "river"}
    /\ gameState.currentPlayerIndex \in DOMAIN gameState.players
    /\ steps \in Nat
    /\ deckError \in BOOLEAN

\* ---------------------------------------------------------------- helpers
seats == DOMAIN gameState.players

history == gameState.actionHistory

lastRecord == history[Len(history)]

RECURSIVE sumStacks(_, _)
sumStacks(stacks, among) ==
    IF among = {} THEN 0
    ELSE LET i == CHOOSE j \in among : TRUE
         IN stacks[i] + sumStacks(stacks, among \ {i})

\* Chips that have left the stacks since the hand began.
wagered == sumStacks(startStacks, seats) - sumStacks(stacksOf(gameState.players), seats)

\* The state startNewHand has just returned.
justStarted == gameState.phase = "betting" /\ history = <<>>

\* The state in which handlePlayerAction has just opened a new street.
justAdvanced ==
    /\ gameState.phase = "betting"
    /\ history # <<>>
    /\ lastRecord.bettingRound # gameState.bettingRound

\* A step of startNewHand / of handlePlayerAction.
startStep == gameState.phase # "betting" /\ gameState'.phase = "betting"

actionStep == steps' = steps + 1

\* A step of handlePlayerAction that closes the street: it opens the next
\* one, or it ends the river with more than one player left.
streetCompleteStep ==
    /\ actionStep
    /\ \/ gameState'.bettingRound # gameState.bettingRound
       \/ /\ gameState'.phase = "showdown"
          /\ gameState.bettingRound = "river"
          /\ Cardinality(getActivePlayers(gameState'.players)) > 1

maxBet(players, among) ==
    IF among = {} THEN 0
    ELSE CHOOSE m \in {players[i].currentBet : i \in among} :
            \A i \in among : players[i].currentBet <= m

\* The first seat clockwise from the dealer that is neither folded nor all-in.
RECURSIVE firstActiveAfter(_, _, _)
firstActiveAfter(players, index, tries) ==
    IF tries = 0 \/ index \in activeSeats(players) THEN index
    ELSE firstActiveAfter(players, (index + 1) % playerCount(players), tries - 1)

\* ------------------------------------------------------------------ claims
\* C1: within a hand, pot plus the sum of the players' currentBet equals the
\* chips that have left the stacks since the hand began.
C1_ChipAccounting ==
    gameState.phase \in {"betting", "showdown"} =>
        gameState.pot + sumBets(gameState.players, seats) = wagered

\* C2: when an action completes a street, the pot grows by exactly the sum of
\* the street bets that are collected (the bets standing before the action
\* plus the chips the action itself moved), and nothing more.
C2_PotGrowsByCollectedBets ==
    [][streetCompleteStep =>
          gameState'.pot = gameState.pot
                             + sumBets(gameState.players, seats)
                             + sumStacks(stacksOf(gameState.players), seats)
                             - sumStacks(stacksOf(gameState'.players), seats)]_vars

\* C3: on a new betting street the table currentBet is 0, minRaise is the big
\* blind and every player's currentBet is 0.
C3_NewStreetResets ==
    justAdvanced =>
        /\ gameState.currentBet = 0
        /\ gameState.minRaise = BIG_BLIND
        /\ \A i \in seats : gameState.players[i].currentBet = 0

\* C3 witness: the flop has just been opened after a pre-flop raise was called.
C3_Witness ==
    /\ justAdvanced
    /\ gameState.bettingRound = "flop"
    /\ gameState.pot > 0
    /\ \E k \in 1..Len(history) : history[k].action = "raise"

\* C4: startNewHand moves the dealer one seat on (mod N) and places the blinds
\* from the new dealer: N > 2 has SB = dealer+1, BB = dealer+2 and the first to
\* act at BB+1; N = 2 has SB = dealer and BB the other seat.  Four players
\* with the dealer at seat 0 have SB 1, BB 2 and seat 3 first to act.
C4_DealerAndBlinds ==
    [][startStep =>
         LET n == playerCount(gameState.players)
             d == gameState'.dealerButtonIndex
         IN /\ d = (gameState.dealerButtonIndex + 1) % n
            /\ n > 2 => /\ gameState'.smallBlindIndex = (d + 1) % n
                        /\ gameState'.bigBlindIndex = (d + 2) % n
                        /\ gameState'.currentPlayerIndex =
                              (gameState'.bigBlindIndex + 1) % n
            /\ n = 2 => /\ gameState'.smallBlindIndex = d
                        /\ gameState'.bigBlindIndex = 1 - d
            /\ (n = 4 /\ d = 0) => /\ gameState'.smallBlindIndex = 1
                                   /\ gameState'.bigBlindIndex = 2
                                   /\ gameState'.currentPlayerIndex = 3]_vars

\* C4 witness: a four-player hand has just started with the dealer at seat 0.
C4_Witness ==
    /\ justStarted
    /\ playerCount(gameState.players) = 4
    /\ gameState.dealerButtonIndex = 0
    /\ gameState.currentPlayerIndex = 3

\* C5: after startNewHand the blind seats hold min(blind, stack) as currentBet,
\* taken from their stacks, and are all-in when the post takes the whole
\* stack; the other seats have currentBet 0 and their stack unchanged; pot = 0,
\* currentBet = bigBlind and minRaise = 2 x bigBlind.
C5_BlindsPosted ==
    [][startStep =>
         /\ \A i \in seats :
              LET before == gameState.players[i]
                  after  == gameState'.players[i]
                  blind  == IF i = gameState'.smallBlindIndex THEN SMALL_BLIND
                            ELSE IF i = gameState'.bigBlindIndex THEN BIG_BLIND
                            ELSE 0
              IN /\ after.currentBet = Min(blind, before.stack)
                 /\ after.stack = before.stack - after.currentBet
                 /\ blind > 0 => (after.isAllIn <=> after.stack = 0)
         /\ gameState'.pot = 0
         /\ gameState'.currentBet = BIG_BLIND
         /\ gameState'.minRaise = 2 * BIG_BLIND]_vars

\* C5 witness: a hand has just started whose big blind seat had less than the
\* big blind and whose small blind seat posted the small blind in full.
C5_Witness ==
    /\ justStarted
    /\ startStacks[gameState.bigBlindIndex] < BIG_BLIND
    /\ gameState.players[gameState.bigBlindIndex].isAllIn
    /\ gameState.players[gameState.smallBlindIndex].currentBet = SMALL_BLIND

\* C6: a fold that leaves exactly one player not folded sets the phase to
\* showdown in the same step, with the street, the community cards, the pot
\* and every player's currentBet as they were.
C6_FoldEndsHand ==
    [][( /\ actionStep
         /\ gameState'.actionHistory[Len(gameState'.actionHistory)].action = "fold"
         /\ Cardinality(getActivePlayers(gameState'.players)) = 1 ) =>
         /\ gameState'.phase = "showdown"
         /\ gameState'.bettingRound = gameState.bettingRound
         /\ gameState'.communityCards = gameState.communityCards
         /\ gameState'.pot = gameState.pot
         /\ \A i \in seats :
              gameState'.players[i].currentBet = gameState.players[i].currentBet]_vars

\* C6 witness: the hand ended on a fold after the flop with a bet left
\* standing in front of the last player.
C6_Witness ==
    /\ gameState.phase = "showdown"
    /\ history # <<>>
    /\ lastRecord.action = "fold"
    /\ Cardinality(getActivePlayers(gameState.players)) = 1
    /\ gameState.bettingRound = "flop"
    /\ \E i \in getActivePlayers(gameState.players) :
          gameState.players[i].currentBet > 0

\* C7: in the betting phase the table currentBet is the largest currentBet of
\* the players that have not folded.
C7_CurrentBetIsMax ==
    gameState.phase = "betting" =>
        gameState.currentBet =
            maxBet(gameState.players, getActivePlayers(gameState.players))

\* C8: in the betting phase the player to act is neither folded nor all-in.
C8_ActorIsActive ==
    gameState.phase = "betting" =>
        gameState.currentPlayerIndex \in activeSeats(gameState.players)

\* C9: when a new street opens, the player to act is the first seat after the
\* dealer that is neither folded nor all-in; heads-up it is the dealer.
C9_FirstToActPostFlop ==
    (justAdvanced /\ activeSeats(gameState.players) # {}) =>
        LET n == playerCount(gameState.players)
        IN gameState.currentPlayerIndex =
              IF n = 2 THEN gameState.dealerButtonIndex
              ELSE firstActiveAfter(gameState.players,
                                    (gameState.dealerButtonIndex + 1) % n, n)

\* C10: every stack, every currentBet, the pot and the table currentBet are
\* never negative, and no step increases a player's stack.
C10_ChipsNonNegative ==
    /\ [](/\ gameState.pot >= 0
          /\ gameState.currentBet >= 0
          /\ \A i \in seats : /\ gameState.players[i].stack >= 0
                              /\ gameState.players[i].currentBet >= 0)
    /\ [][\A i \in seats :
            gameState'.players[i].stack <= gameState.players[i].stack]_vars
\* ------------------------------------------------------------- the cards
\* A card is its index in createDeck(): the suits in the order of SUITS and,
\* within a suit, the ranks in the order of RANKS.
SUITS == <<"hearts", "diamonds", "clubs", "spades">>
RANKS == <<"2", "3", "4", "5", "6", "7", "8", "9", "T", "J", "Q", "K", "A">>

cardSuit(c) == SUITS[((c - 1) \div Len(RANKS)) + 1]
cardRank(c) == RANKS[((c - 1) % Len(RANKS)) + 1]

\* The card of a rank and a suit, by their positions in RANKS and SUITS.
createCard(rankIndex, suitIndex) == (suitIndex - 1) * Len(RANKS) + rankIndex

getRankValue(rank) ==
    CASE rank = "2" -> 2  [] rank = "3" -> 3  [] rank = "4" -> 4
      [] rank = "5" -> 5  [] rank = "6" -> 6  [] rank = "7" -> 7
      [] rank = "8" -> 8  [] rank = "9" -> 9  [] rank = "T" -> 10
      [] rank = "J" -> 11 [] rank = "Q" -> 12 [] rank = "K" -> 13
      [] rank = "A" -> 14

\* Array.prototype.sort is stable: a card goes behind the cards of its rank
\* that came before it.
RECURSIVE insertByRank(_, _)
insertByRank(sorted, card) ==
    IF sorted = <<>> THEN <<card>>
    ELSE IF getRankValue(cardRank(sorted[Len(sorted)])) >= getRankValue(cardRank(card))
         THEN Append(sorted, card)
         ELSE Append(insertByRank(SubSeq(sorted, 1, Len(sorted) - 1), card),
                     sorted[Len(sorted)])

RECURSIVE sortCardsByRank(_)
sortCardsByRank(cards) ==
    IF cards = <<>> THEN <<>>
    ELSE insertByRank(sortCardsByRank(SubSeq(cards, 1, Len(cards) - 1)),
                      cards[Len(cards)])

\* ------------------------------------------------------- handEvaluator.ts
\* The elements of a sequence, each once, in the order of first occurrence.
RECURSIVE uniqueInOrder(_)
uniqueInOrder(s) ==
    IF s = <<>> THEN <<>>
    ELSE LET front == uniqueInOrder(SubSeq(s, 1, Len(s) - 1))
             last  == s[Len(s)]
         IN IF \E i \in DOMAIN front : front[i] = last THEN front
            ELSE Append(front, last)

ranksOf(cards) == [i \in DOMAIN cards |-> cardRank(cards[i])]

withRank(cards, rank) == SelectSeq(cards, LAMBDA c : cardRank(c) = rank)
withoutRank(cards, rank) == SelectSeq(cards, LAMBDA c : cardRank(c) # rank)
withSuit(cards, suit) == SelectSeq(cards, LAMBDA c : cardSuit(c) = suit)

\* counts[rank] of getRankCounts.
rankCount(cards, rank) == Len(withRank(cards, rank))

\* The keys of getRankCounts in the order Object.keys / Object.entries list
\* them: the integer-like keys '2'..'9' in ascending order, then the keys
\* 'T', 'J', 'Q', 'K', 'A' in the order the cards first set them.
getRankCounts(cards) ==
    LET present  == {cardRank(cards[i]) : i \in DOMAIN cards}
        integers == SelectSeq(SubSeq(RANKS, 1, 8), LAMBDA r : r \in present)
        letters  == SelectSeq(ranksOf(cards),
                              LAMBDA r : getRankValue(r) >= getRankValue("T"))
    IN integers \o uniqueInOrder(letters)

\* null, and the first n cards of a sequence (slice(0, n)).
NoHand == [ranking |-> "none", cards |-> <<>>]

firstCards(cards, n) == SubSeq(cards, 1, Min(n, Len(cards)))

\* The first card of a rank in a sequence (Array.prototype.find).
findRank(cards, rank) == withRank(cards, rank)[1]

\* The wheel is looked for first; then the windows of five unique ranks, from
\* the highest down.
RECURSIVE straightWindow(_, _, _)
straightWindow(sorted, uniqueRanks, i) ==
    IF i > Len(uniqueRanks) - 5 THEN NoHand
    ELSE LET fiveRanks == SubSeq(uniqueRanks, i + 1, i + 5)
             isConsecutive ==
                 \A j \in 1..4 :
                     getRankValue(fiveRanks[j]) - getRankValue(fiveRanks[j + 1]) = 1
         IN IF isConsecutive
            THEN [ranking |-> "straight",
                  cards |-> [j \in 1..5 |-> findRank(sorted, fiveRanks[j])]]
            ELSE straightWindow(sorted, uniqueRanks, i + 1)

\* A variant of checkStraight that lists the wheel with its ace first.
checkStraightAceFirst(cards) ==
    LET sorted      == sortCardsByRank(cards)
        uniqueRanks == uniqueInOrder(ranksOf(sorted))
        includes(rank) == \E i \in DOMAIN uniqueRanks : uniqueRanks[i] = rank
        wheel       == <<"A", "5", "4", "3", "2">>
    IN IF \A j \in 1..5 : includes(wheel[j])
       THEN [ranking |-> "straight",
             cards |-> [j \in 1..5 |-> findRank(sorted, wheel[j])]]
       ELSE straightWindow(sorted, uniqueRanks, 0)

checkStraight(cards) ==
    LET sorted      == sortCardsByRank(cards)
        uniqueRanks == uniqueInOrder(ranksOf(sorted))
        includes(rank) == \E i \in DOMAIN uniqueRanks : uniqueRanks[i] = rank
        wheel       == <<"5", "4", "3", "2", "A">>
    IN IF \A j \in 1..5 : includes(wheel[j])
       THEN [ranking |-> "straight",
             cards |-> [j \in 1..5 |-> findRank(sorted, wheel[j])]]
       ELSE straightWindow(sorted, uniqueRanks, 0)

RECURSIVE straightFlushFrom(_, _)
straightFlushFrom(cards, suitIndex) ==
    IF suitIndex > Len(SUITS) THEN NoHand
    ELSE LET suitedCards == withSuit(cards, SUITS[suitIndex])
             straight    == IF Len(suitedCards) >= 5 THEN checkStraight(suitedCards)
                            ELSE NoHand
         IN IF straight # NoHand
            THEN [ranking |-> "straight-flush", cards |-> straight.cards]
            ELSE straightFlushFrom(cards, suitIndex + 1)

checkStraightFlush(cards) == straightFlushFrom(cards, 1)

checkRoyalFlush(cards) ==
    LET straightFlush == checkStraightFlush(cards)
    IN IF straightFlush # NoHand /\ cardRank(straightFlush.cards[1]) = "A"
       THEN [ranking |-> "royal-flush", cards |-> straightFlush.cards]
       ELSE NoHand

\* The keys of getRankCounts whose count is n / is n or more, in key order.
keysWithCount(cards, n) ==
    SelectSeq(getRankCounts(cards), LAMBDA r : rankCount(cards, r) = n)

keysWithCountAtLeast(cards, n) ==
    SelectSeq(getRankCounts(cards), LAMBDA r : rankCount(cards, r) >= n)

\* The rank of the highest value among a sequence of ranks ("" for none):
\* the loops that keep a rank when none is kept yet or it beats the kept one.
highestRank(ranks) ==
    IF ranks = <<>> THEN ""
    ELSE CHOOSE r \in {ranks[i] : i \in DOMAIN ranks} :
            \A i \in DOMAIN ranks : getRankValue(ranks[i]) <= getRankValue(r)

checkFourOfAKind(cards) ==
    LET fours == keysWithCount(cards, 4)
    IN IF fours = <<>> THEN NoHand
       ELSE LET rank      == fours[1]
                fourCards == withRank(cards, rank)
                kicker    == sortCardsByRank(withoutRank(cards, rank))[1]
            IN [ranking |-> "four-of-a-kind", cards |-> Append(fourCards, kicker)]

checkFullHouse(cards) ==
    LET threeRank == highestRank(keysWithCountAtLeast(cards, 3))
        pairs     == SelectSeq(keysWithCountAtLeast(cards, 2),
                               LAMBDA r : r # threeRank)
        threes    == SelectSeq(keysWithCountAtLeast(cards, 3),
                               LAMBDA r : r # threeRank)
        pairRank  == IF pairs # <<>> THEN highestRank(pairs)
                     ELSE IF threeRank # "" /\ threes # <<>> THEN threes[1]
                     ELSE ""
    IN IF threeRank # "" /\ pairRank # ""
       THEN [ranking |-> "full-house",
             cards |-> firstCards(withRank(cards, threeRank), 3)
                         \o firstCards(withRank(cards, pairRank), 2)]
       ELSE NoHand

RECURSIVE flushFrom(_, _)
flushFrom(cards, suitIndex) ==
    IF suitIndex > Len(SUITS) THEN NoHand
    ELSE LET suitedCards == withSuit(cards, SUITS[suitIndex])
         IN IF Len(suitedCards) >= 5
            THEN [ranking |-> "flush",
                  cards |-> firstCards(sortCardsByRank(suitedCards), 5)]
            ELSE flushFrom(cards, suitIndex + 1)

checkFlush(cards) == flushFrom(cards, 1)

checkThreeOfAKind(cards) ==
    LET threes == keysWithCount(cards, 3)
    IN IF threes = <<>> THEN NoHand
       ELSE LET rank       == threes[1]
                threeCards == withRank(cards, rank)
                kickers    == firstCards(sortCardsByRank(withoutRank(cards, rank)), 2)
            IN [ranking |-> "three-of-a-kind", cards |-> threeCards \o kickers]

\* pairs.sort by descending rank value: the two highest paired ranks.
checkTwoPair(cards) ==
    LET pairs == keysWithCountAtLeast(cards, 2)
    IN IF Len(pairs) < 2 THEN NoHand
       ELSE LET first   == highestRank(pairs)
                second  == highestRank(SelectSeq(pairs, LAMBDA r : r # first))
                pairCards == firstCards(withRank(cards, first), 2)
                               \o firstCards(withRank(cards, second), 2)
                kicker  == sortCardsByRank(withoutRank(withoutRank(cards, first),
                                                       second))[1]
            IN [ranking |-> "two-pair", cards |-> Append(pairCards, kicker)]

\* A variant of checkPair that takes the kickers as the cards come.
checkPairUnsorted(cards) ==
    LET pairs == keysWithCount(cards, 2)
    IN IF pairs = <<>> THEN NoHand
       ELSE LET rank      == pairs[1]
                pairCards == withRank(cards, rank)
                kickers   == firstCards(withoutRank(cards, rank), 3)
            IN [ranking |-> "pair", cards |-> pairCards \o kickers]

checkPair(cards) ==
    LET pairs == keysWithCount(cards, 2)
    IN IF pairs = <<>> THEN NoHand
       ELSE LET rank      == pairs[1]
                pairCards == withRank(cards, rank)
                kickers   == firstCards(sortCardsByRank(withoutRank(cards, rank)), 3)
            IN [ranking |-> "pair", cards |-> pairCards \o kickers]

checkHighCard(cards) ==
    [ranking |-> "high-card", cards |-> firstCards(sortCardsByRank(cards), 5)]

\* The categories are tried from the best to the worst; the first that is
\* made is returned.
findBestHand(cards) ==
    IF checkRoyalFlush(cards) # NoHand THEN checkRoyalFlush(cards)
    ELSE IF checkStraightFlush(cards) # NoHand THEN checkStraightFlush(cards)
    ELSE IF checkFourOfAKind(cards) # NoHand THEN checkFourOfAKind(cards)
    ELSE IF checkFullHouse(cards) # NoHand THEN checkFullHouse(cards)
    ELSE IF checkFlush(cards) # NoHand THEN checkFlush(cards)
    ELSE IF checkStraight(cards) # NoHand THEN checkStraight(cards)
    ELSE IF checkThreeOfAKind(cards) # NoHand THEN checkThreeOfAKind(cards)
    ELSE IF checkTwoPair(cards) # NoHand THEN checkTwoPair(cards)
    ELSE IF checkPair(cards) # NoHand THEN checkPair(cards)
    ELSE checkHighCard(cards)

\* evaluateHand throws on fewer than 5 cards.
evaluateHand(cards) ==
    IF Len(cards) < 5 THEN [ranking |-> "error", cards |-> <<>>]
    ELSE findBestHand(cards)

rankingValues(ranking) ==
    CASE ranking = "royal-flush"     -> 10
      [] ranking = "straight-flush"  -> 9
      [] ranking = "four-of-a-kind"  -> 8
      [] ranking = "full-house"      -> 7
      [] ranking = "flush"           -> 6
      [] ranking = "straight"        -> 5
      [] ranking = "three-of-a-kind" -> 4
      [] ranking = "two-pair"        -> 3
      [] ranking = "pair"            -> 2
      [] ranking = "high-card"       -> 1

\* The first position from i on at which the two hands differ in rank value
\* decides; none in five positions is an exact tie.
RECURSIVE compareCardsFrom(_, _, _)
compareCardsFrom(hand1, hand2, i) ==
    IF i > 5 THEN 0
    ELSE LET card1Value == getRankValue(cardRank(hand1.cards[i]))
             card2Value == getRankValue(cardRank(hand2.cards[i]))
         IN IF card1Value > card2Value THEN 1
            ELSE IF card1Value < card2Value THEN -1
            ELSE compareCardsFrom(hand1, hand2, i + 1)

\* A variant of compareHands that stops at the ranking.
compareHandsByRanking(hand1, hand2) ==
    LET value1 == rankingValues(hand1.ranking)
        value2 == rankingValues(hand2.ranking)
    IN IF value1 > value2 THEN 1
       ELSE IF value1 < value2 THEN -1
       ELSE 0

compareHands(hand1, hand2) ==
    LET value1 == rankingValues(hand1.ranking)
        value2 == rankingValues(hand2.ranking)
    IN IF value1 > value2 THEN 1
       ELSE IF value1 < value2 THEN -1
       ELSE compareCardsFrom(hand1, hand2, 1)

\* ------------------------------------------------------------ handStrength
\* score of evaluatePreFlopHand.
evaluatePreFlopHand(card1, card2) ==
    LET rank1    == getRankValue(cardRank(card1))
        rank2    == getRankValue(cardRank(card2))
        suited   == cardSuit(card1) = cardSuit(card2)
        isPair   == rank1 = rank2
        highCard == Max(rank1, rank2)
        lowCard  == Min(rank1, rank2)
        gap      == highCard - lowCard
        pick(s, o) == IF suited THEN s ELSE o
    IN IF isPair THEN
           IF rank1 >= 14 THEN 95
           ELSE IF rank1 >= 13 THEN 90
           ELSE IF rank1 >= 12 THEN 85
           ELSE IF rank1 >= 11 THEN 80
           ELSE IF rank1 >= 10 THEN 75
           ELSE IF rank1 >= 7 THEN 65
           ELSE 50 + rank1 * 2
       ELSE IF highCard = 14 THEN
           IF lowCard >= 13 THEN pick(88, 82)
           ELSE IF lowCard >= 12 THEN pick(78, 72)
           ELSE IF lowCard >= 11 THEN pick(73, 67)
           ELSE IF lowCard >= 10 THEN pick(68, 62)
           ELSE IF lowCard >= 7 THEN pick(55, 45)
           ELSE pick(45, 30)
       ELSE IF highCard = 13 THEN
           IF lowCard >= 12 THEN pick(76, 70)
           ELSE IF lowCard >= 11 THEN pick(71, 65)
           ELSE IF lowCard >= 10 THEN pick(66, 58)
           ELSE IF lowCard >= 9 THEN pick(58, 48)
           ELSE pick(48, 35)
       ELSE IF highCard = 12 THEN
           IF lowCard >= 11 THEN pick(69, 63)
           ELSE IF lowCard >= 10 THEN pick(64, 56)
           ELSE IF lowCard >= 9 THEN pick(56, 46)
           ELSE pick(46, 33)
       ELSE IF highCard = 11 THEN
           IF lowCard >= 10 THEN pick(62, 54)
           ELSE IF lowCard >= 9 THEN pick(54, 44)
           ELSE pick(44, 31)
       ELSE IF gap = 0 THEN pick(40 + highCard * 2, 30 + highCard * 2)
       ELSE IF gap = 1 THEN pick(35 + highCard, 25 + highCard)
       ELSE IF suited THEN 30 + highCard
       ELSE 15 + highCard

getPositionCategory(playerIndex, dealerIndex, totalPlayers) ==
    LET seatsAfterDealer == (playerIndex - dealerIndex + totalPlayers) % totalPlayers
    IN IF seatsAfterDealer = 0 THEN "button"
       ELSE IF seatsAfterDealer = 1 \/ seatsAfterDealer = 2 THEN "early"
       ELSE IF totalPlayers = 4
            THEN (IF seatsAfterDealer = 3 THEN "late" ELSE "middle")
       ELSE IF seatsAfterDealer <= 3 THEN "early"
       ELSE IF seatsAfterDealer <= 5 THEN "middle"
       ELSE "late"

\* Scores times a position multiplier are kept in tenths: the multipliers 0.8,
\* 0.9, 1.1 and 1.2 are 8, 9, 11 and 12, and a threshold (100 - x) * 0.95 is
\* compared after scaling both sides by 100.
shouldPlayHand(handScore, vpip, positionTenths) ==
    handScore * positionTenths * 10 >= (100 - vpip) * 95

shouldRaiseHand(handScore, pfr, positionTenths) ==
    handScore * positionTenths * 10 >= (100 - pfr) * 95

\* ---------------------------------------------------------- oddsCalculator
\* calculatePotOdds in tenths of a percent: Math.round(odds * 10).
calculatePotOdds(potSize, callAmount) ==
    IF callAmount = 0 THEN 1000
    ELSE (2 * 1000 * callAmount + (potSize + callAmount))
             \div (2 * (potSize + callAmount))

\* ------------------------------------------------------------ playerStyles
\* bluffFrequency is kept in percent.
PLAYER_STYLES ==
    [style \in {"tight-aggressive", "loose-passive", "loose-aggressive",
                "tight-passive", "ultra-aggressive"} |->
        CASE style = "tight-aggressive" ->
                 [vpip |-> 20, pfr |-> 18, aggression |-> 7, bluffFrequency |-> 25]
          [] style = "loose-passive" ->
                 [vpip |-> 45, pfr |-> 10, aggression |-> 2, bluffFrequency |-> 5]
          [] style = "loose-aggressive" ->
                 [vpip |-> 50, pfr |-> 35, aggression |-> 8, bluffFrequency |-> 40]
          [] style = "tight-passive" ->
                 [vpip |-> 15, pfr |-> 8, aggression |-> 3, bluffFrequency |-> 10]
          [] style = "ultra-aggressive" ->
                 [vpip |-> 65, pfr |-> 50, aggression |-> 10, bluffFrequency |-> 50]]

\* -------------------------------------------------------------- AIOpponent
\* The draws of Math.random in one decision: shouldBeAggressive, shouldBluff,
\* the occasional raise (random < 0.3) and the bluff raise (random <
\* bluffFrequency).  Each comparison can come out either way for every style;
\* hasThreeToFlush and hasThreeToStraight only move the odds of shouldBluff.
RandomDraws ==
    [aggressive : BOOLEAN, bluff : BOOLEAN, occasional : BOOLEAN, bluffRaise : BOOLEAN]

\* In tenths.
getPositionMultiplier(position) ==
    CASE position = "early"  -> 8
      [] position = "middle" -> 9
      [] position = "late"   -> 11
      [] position = "button" -> 12
      [] OTHER               -> 10

estimateHandStrength(ranking) ==
    CASE ranking = "royal-flush"     -> 100
      [] ranking = "straight-flush"  -> 95
      [] ranking = "four-of-a-kind"  -> 90
      [] ranking = "full-house"      -> 85
      [] ranking = "flush"           -> 75
      [] ranking = "straight"        -> 70
      [] ranking = "three-of-a-kind" -> 60
      [] ranking = "two-pair"        -> 50
      [] ranking = "pair"            -> 35
      [] ranking = "high-card"       -> 20
      [] OTHER                       -> 20

\* The multiplier is kept in thousandths (aggression / 10 * 1.5 is aggression *
\* 150); Math.floor(pot * multiplier) is a whole number of chips, computed here
\* from the pot in half chips with exact arithmetic and doubled back into half
\* chips.  hand strength comes in tenths.
determineRaiseSize(style, player, pot, strengthTenths) ==
    LET aggression == PLAYER_STYLES[style].aggression
        raiseMultiplier ==
            IF strengthTenths >= 850 THEN 750 + aggression * 150
            ELSE IF strengthTenths >= 700 THEN 500 + aggression * 100
            ELSE 330 + aggression * 67
        raiseAmount == 2 * ((pot * raiseMultiplier) \div 2000)
        cappedRaise == Min(raiseAmount, player.stack)
    IN [type |-> "raise", amount |-> cappedRaise]

shouldCall(style, callAmount, pot, strengthTenths) ==
    LET potOdds       == calculatePotOdds(pot, callAmount)
        callThreshold == 100 - PLAYER_STYLES[style].vpip
    IN strengthTenths >= callThreshold * 10 \/ strengthTenths > potOdds

decidePreFlop(style, player, currentBet, pot, playerIndex, dealerIndex, random) ==
    LET score    == evaluatePreFlopHand(player.holeCards[1], player.holeCards[2])
        position == getPositionCategory(playerIndex, dealerIndex, 4)
        positionMultiplier == getPositionMultiplier(position)
        adjustedScore == score * positionMultiplier
        shouldPlay  == shouldPlayHand(score, PLAYER_STYLES[style].vpip, positionMultiplier)
        shouldRaise == shouldRaiseHand(score, PLAYER_STYLES[style].pfr, positionMultiplier)
        callAmount  == currentBet - player.currentBet
    IN IF ~shouldPlay THEN [type |-> "fold", amount |-> 0]
       ELSE IF currentBet = player.currentBet
       THEN (IF shouldRaise /\ random.aggressive
             THEN determineRaiseSize(style, player, pot, adjustedScore)
             ELSE [type |-> "check", amount |-> 0])
       ELSE IF shouldRaise /\ adjustedScore >= 750
       THEN determineRaiseSize(style, player, pot, adjustedScore)
       ELSE IF adjustedScore >= 500 \/ shouldCall(style, callAmount, pot, adjustedScore)
       THEN [type |-> "call", amount |-> callAmount]
       ELSE [type |-> "fold", amount |-> 0]

\* The bluff of half the pot: Math.floor(pot * 0.5) whole chips.
bluffRaise(player, pot) == [type |-> "raise", amount |-> 2 * (pot \div 4)]

decidePostFlop(style, player, currentBet, pot, communityCards, random) ==
    LET allCards     == player.holeCards \o communityCards
        myHand       == evaluateHand(allCards)
        handStrength == estimateHandStrength(myHand.ranking)
        callAmount   == currentBet - player.currentBet
        potOdds      == calculatePotOdds(pot, callAmount)
        call_        == [type |-> "call", amount |-> callAmount]
    IN IF currentBet = player.currentBet
       THEN (IF handStrength >= 60 /\ random.aggressive
             THEN determineRaiseSize(style, player, pot, handStrength * 10)
             ELSE IF random.bluff /\ PLAYER_STYLES[style].aggression >= 6
             THEN bluffRaise(player, pot)
             ELSE [type |-> "check", amount |-> 0])
       ELSE IF handStrength >= 75
       THEN (IF random.aggressive
             THEN determineRaiseSize(style, player, pot, handStrength * 10)
             ELSE call_)
       ELSE IF handStrength >= 50
       THEN (IF random.aggressive /\ random.occasional
             THEN determineRaiseSize(style, player, pot, handStrength * 10)
             ELSE call_)
       ELSE IF handStrength * 10 > potOdds \/ random.bluff
       THEN (IF random.bluff /\ random.bluffRaise
             THEN determineRaiseSize(style, player, pot, 40 * 10)
             ELSE call_)
       ELSE [type |-> "fold", amount |-> 0]

decide(style, player, gs, random) ==
    IF gs.bettingRound = "preflop"
    THEN decidePreFlop(style, player, gs.currentBet, gs.pot, player.index,
                       gs.dealerButtonIndex, random)
    ELSE decidePostFlop(style, player, gs.currentBet, gs.pot, gs.communityCards, random)

\* ------------------------------------------------- the opponents' decisions
\* The table of the pure-function specifications: the game as initializeGame
\* leaves it, never dealt.
InitIdle ==
    /\ gameState = initializeGame([i \in 0..3 |-> 30 * BIG_BLIND])
    /\ startStacks = [i \in 0..3 |-> 30 * BIG_BLIND]
    /\ deck = createShuffledDeck
    /\ steps = 0
    /\ deckError = FALSE

\* Hole cards: A-A, K-Q suited, 7-2 offsuit.
AIHoleCards ==
    {<<createCard(13, 1), createCard(13, 2)>>,
     <<createCard(12, 1), createCard(11, 1)>>,
     <<createCard(6, 3), createCard(1, 2)>>}

\* Boards: none (pre-flop), the flop A K 2 and the turn A A K K.
AIBoards ==
    {<<>>,
     <<createCard(13, 4), createCard(12, 4), createCard(1, 3)>>,
     <<createCard(13, 4), createCard(13, 3), createCard(12, 4), createCard(12, 3)>>}

\* Pots and stacks in half chips; stacks go up to the 200 big blinds of
\* generateRandomStack.
AIPots == {0, 3, 20, 200}
AIStacks == {10, 60, 400}
AISeats == {1, 3}
AIDealers == {0, 1}

\* The bets the opponent meets.  Pre-flop: the big blind to call, or the big
\* blind's own option.  Post-flop: no bet yet, or a bet of two big blinds.
AITables(board) ==
    IF board = <<>>
    THEN {[currentBet |-> BIG_BLIND, playerBet |-> 0, minRaise |-> BIG_BLIND * 2],
          [currentBet |-> BIG_BLIND, playerBet |-> BIG_BLIND, minRaise |-> BIG_BLIND * 2]}
    ELSE {[currentBet |-> 0, playerBet |-> 0, minRaise |-> BIG_BLIND],
          [currentBet |-> 2 * BIG_BLIND, playerBet |-> 0,
           minRaise |-> calculateMinRaise(2 * BIG_BLIND, 2 * BIG_BLIND, BIG_BLIND)]}

streetOf(board) ==
    CASE Len(board) = 0 -> "preflop"
      [] Len(board) = 3 -> "flop"
      [] Len(board) = 4 -> "turn"
      [] OTHER          -> "river"

\* The calls aiOpponent.decide(currentPlayer, gameState) of the opponents'
\* timer: the player to act has chips and has not folded; after the flop the
\* pot holds the blinds at least.
DecideCalls ==
    UNION {
      {[fn |-> "decide",
        style |-> style,
        player |-> [index |-> seat, stack |-> stack, currentBet |-> t.playerBet,
                    holeCards |-> hole],
        gameState |-> [bettingRound |-> streetOf(board), currentBet |-> t.currentBet,
                       pot |-> pot, communityCards |-> board, minRaise |-> t.minRaise,
                       dealerButtonIndex |-> dealer]] :
          style \in DOMAIN PLAYER_STYLES, seat \in AISeats, stack \in AIStacks,
          hole \in AIHoleCards, dealer \in AIDealers, t \in AITables(board),
          pot \in {pp \in AIPots : board = <<>> \/ pp > 0}} :
      board \in AIBoards}

InitAI ==
    /\ InitIdle
    /\ call \in DecideCalls
    /\ returned = NoReturn

aiDecides ==
    /\ call.fn = "decide"
    /\ returned = NoReturn
    /\ \E random \in RandomDraws :
          returned' = decide(call.style, call.player, call.gameState, random)
    /\ UNCHANGED <<table, call>>

NextAI == aiDecides

SpecAI == InitAI /\ [][NextAI]_vars

\* C13: a raise returned by decide names an amount that is at most the
\* player's stack and at least minRaise, unless it is the player's whole stack.
C13_RaiseWithinStackAndMinRaise ==
    (call.fn = "decide" /\ returned.type = "raise") =>
        /\ returned.amount <= call.player.stack
        /\ \/ returned.amount >= call.gameState.minRaise
           \/ returned.amount = call.player.stack

\* C14: decide never returns a raise whose amount reaches the player's stack:
\* such a raise is returned as an all-in.
C14_RaiseOfStackIsAllIn ==
    (call.fn = "decide" /\ returned.type = "raise") =>
        returned.amount < call.player.stack

\* ------------------------------------------------------ the hand evaluator
\* The elements of a set of numbers as an ascending sequence.
RECURSIVE ascending(_)
ascending(S) ==
    IF S = {} THEN <<>>
    ELSE LET least == CHOOSE x \in S : \A y \in S : x <= y
         IN <<least>> \o ascending(S \ {least})

\* The hands of the given sizes that can be drawn from a set of cards, each
\* in deck order.
handsFrom(universe, sizes) ==
    {ascending(S) : S \in {T \in SUBSET universe : Cardinality(T) \in sizes}}

\* The cards of the evaluator's study: A, 2 .. 7 of hearts and of spades, and
\* the 2 of diamonds and of clubs.
EvalUniverse ==
    {createCard(r, u) : r \in {13, 1, 2, 3, 4, 5, 6}, u \in {1, 4}}
        \cup {createCard(1, 2), createCard(1, 3)}

\* evaluateHand is given 5 to 7 cards: two hole cards and the board.
HandSizes == {5, 6, 7}

EvaluateCalls ==
    {[fn |-> "evaluateHand", cards |-> h] : h \in handsFrom(EvalUniverse, HandSizes)}

InitEval ==
    /\ InitIdle
    /\ call \in EvaluateCalls
    /\ returned = NoReturn

evaluates ==
    /\ call.fn = "evaluateHand"
    /\ returned = NoReturn
    /\ returned' = evaluateHand(call.cards)
    /\ UNCHANGED <<table, call>>

NextEval == evaluates

SpecEval == InitEval /\ [][NextEval]_vars

evaluated == call.fn = "evaluateHand" /\ returned # NoReturn

\* The 5-card hands within a hand, cards in the order of the hand.
fiveCardSubsets(cards) ==
    {[j \in 1..5 |-> cards[ascending(S)[j]]] :
        S \in {T \in SUBSET DOMAIN cards : Cardinality(T) = 5}}

\* C15: the hand evaluateHand returns for 5 to 7 distinct cards is at least as
\* good, under compareHands, as the evaluation of every 5 of those cards.
C15_EvaluateFindsBestFive ==
    evaluated =>
        \A five \in fiveCardSubsets(call.cards) :
            compareHands(returned, evaluateHand(five)) >= 0

\* A, 2, 3, 4, 5 and nothing else, not all of one suit.
isWheel(cards) ==
    /\ Len(cards) = 5
    /\ {cardRank(cards[i]) : i \in DOMAIN cards} = {"A", "2", "3", "4", "5"}
    /\ Cardinality({cardSuit(cards[i]) : i \in DOMAIN cards}) > 1

\* The straight of mixed suits whose highest card has the given rank value.
straightTo(top) ==
    [j \in 1..5 |-> createCard(top - j, IF j % 2 = 1 THEN 1 ELSE 4)]

\* C16: A, 2, 3, 4, 5 of mixed suits evaluates to a straight whose cards run
\* 5, 4, 3, 2, A (5 high, ace last), and under compareHands it loses to every
\* straight that is 6 high or better.
C16_WheelIsFiveHigh ==
    (evaluated /\ isWheel(call.cards)) =>
        /\ returned.ranking = "straight"
        /\ ranksOf(returned.cards) = <<"5", "4", "3", "2", "A">>
        /\ \A top \in 6..14 :
              LET better == evaluateHand(straightTo(top))
              IN /\ better.ranking = "straight"
                 /\ getRankValue(cardRank(better.cards[1])) = top
                 /\ compareHands(returned, better) = -1
                 /\ compareHands(better, returned) = 1

\* C16 witness: a wheel of mixed suits has been evaluated as a straight.
C16_Witness ==
    /\ evaluated
    /\ isWheel(call.cards)
    /\ returned.ranking = "straight"

\* Every order in which the cards of a set can be handed over.
RECURSIVE orderings(_)
orderings(S) ==
    IF S = {} THEN {<<>>}
    ELSE UNION {{<<x>> \o rest : rest \in orderings(S \ {x})} : x \in S}

\* The cards of the study of input order: the 3, the K and the A in up to
\* three suits and a 9, so that the ranks held twice or three times include
\* an integer-like key of getRankCounts and keys ordered by first occurrence.
OrderUniverse ==
    {createCard(r, u) : r \in {2, 12}, u \in {1, 2, 3}}
        \cup {createCard(13, 1), createCard(13, 2), createCard(8, 1)}

InitOrder ==
    /\ InitIdle
    /\ \E S \in {T \in SUBSET OrderUniverse : Cardinality(T) \in HandSizes} :
          call \in {[fn |-> "evaluateHand", cards |-> h] : h \in orderings(S)}
    /\ returned = NoReturn

SpecOrder == InitOrder /\ [][NextEval]_vars

\* The same cards in deck order.
inDeckOrder(cards) == ascending({cards[i] : i \in DOMAIN cards})

\* C17: evaluateHand does not depend on the order of its cards: the cards in
\* any order and the same cards in deck order get the same ranking and tie
\* exactly under compareHands.
C17_OrderIndependent ==
    evaluated =>
        LET other == evaluateHand(inDeckOrder(call.cards))
        IN /\ returned.ranking = other.ranking
           /\ compareHands(returned, other) = 0
           /\ compareHands(other, returned) = 0

\* C17 witness: seven cards holding two ranks three times, handed over out of
\* deck order, have been evaluated as a full house.
C17_Witness ==
    /\ evaluated
    /\ call.cards # inDeckOrder(call.cards)
    /\ Len(call.cards) = 7
    /\ Len(keysWithCount(call.cards, 3)) = 2
    /\ returned.ranking = "full-house"

\* -------------------------------------------------------- the hand comparator
\* The hands compared: the evaluations of every five cards out of A K Q J T of
\* hearts, A K of spades and the aces of diamonds and clubs, and of three more
\* hands: a king-high straight flush, the flush A K Q J 9 and the high card
\* A K Q J 9.  All ten rankings occur.
CompareUniverse ==
    {createCard(r, 1) : r \in 9..13}
        \cup {createCard(13, 4), createCard(12, 4), createCard(13, 2), createCard(13, 3)}

CompareExtras ==
    {[j \in 1..5 |-> createCard(13 - j, 1)],
     <<createCard(13, 1), createCard(12, 1), createCard(11, 1), createCard(10, 1),
       createCard(8, 1)>>,
     <<createCard(13, 4), createCard(12, 1), createCard(11, 1), createCard(10, 1),
       createCard(8, 1)>>}

CompareSamples ==
    {evaluateHand(h) : h \in handsFrom(CompareUniverse, {5}) \cup CompareExtras}

InitCompare ==
    /\ InitIdle
    /\ call \in {[fn |-> "compareHands", hand1 |-> a, hand2 |-> b] :
                    a \in CompareSamples, b \in CompareSamples}
    /\ returned = NoReturn

compares ==
    /\ call.fn = "compareHands"
    /\ returned = NoReturn
    /\ returned' = [result |-> compareHands(call.hand1, call.hand2)]
    /\ UNCHANGED <<table, call>>

NextCompare == compares

SpecCompare == InitCompare /\ [][NextCompare]_vars

compared == call.fn = "compareHands" /\ returned # NoReturn

sameRanks(hand1, hand2) ==
    \A i \in 1..5 : getRankValue(cardRank(hand1.cards[i]))
                      = getRankValue(cardRank(hand2.cards[i]))

\* C18: compareHands is a consistent ordering: swapping the hands negates the
\* result; a hand of a higher ranking wins; the result is a tie exactly when
\* the rankings are equal and the five ranks match position by position; and
\* it is transitive (not losing to a hand that does not lose to a third means
\* not losing to the third, and winning if either step is a win).
C18_CompareHandsIsAnOrdering ==
    compared =>
        LET a == call.hand1
            b == call.hand2
            r == returned.result
        IN /\ compareHands(b, a) = -r
           /\ rankingValues(a.ranking) > rankingValues(b.ranking) => r = 1
           /\ r = 0 <=> (a.ranking = b.ranking /\ sameRanks(a, b))
           /\ \A c \in CompareSamples :
                 (r >= 0 /\ compareHands(b, c) >= 0) =>
                     /\ compareHands(a, c) >= 0
                     /\ (r = 1 \/ compareHands(b, c) = 1) => compareHands(a, c) = 1

\* C18 witness: two hands of the same ranking and of different cards have been
\* compared and tie.
C18_Witness ==
    /\ compared
    /\ call.hand1.cards # call.hand2.cards
    /\ call.hand1.ranking = call.hand2.ranking
    /\ returned.result = 0

\* ------------------------------------------------------------- the streets
\* The number of community cards a street is played with.
streetCards(round) ==
    CASE round = "preflop" -> 0
      [] round = "flop"    -> 3
      [] round = "turn"    -> 4
      [] round = "river"   -> 5

\* C19: within a hand the street only moves to its immediate successor
\* (preflop, flop, turn, river), a hand that is not folded out reaches the
\* showdown from the river only, and only startNewHand goes back, to preflop;
\* in every betting state the community cards number 0, 3, 4 or 5 on the
\* preflop, flop, turn and river.
C19_StreetsInOrder ==
    /\ [][/\ gameState'.bettingRound # gameState.bettingRound =>
               IF startStep THEN gameState'.bettingRound = "preflop"
               ELSE /\ actionStep
                    /\ <<gameState.bettingRound, gameState'.bettingRound>> \in
                          {<<"preflop", "flop">>, <<"flop", "turn">>, <<"turn", "river">>}
          /\ (/\ gameState.phase = "betting"
              /\ gameState'.phase = "showdown"
              /\ ~isHandOver(gameState'.players)) => gameState.bettingRound = "river"]_vars
    /\ [](gameState.phase = "betting" =>
             Len(gameState.communityCards) = streetCards(gameState.bettingRound))

\* C19 witness: the river is being played, with five community cards.
C19_Witness ==
    /\ gameState.phase = "betting"
    /\ gameState.bettingRound = "river"
    /\ Len(gameState.communityCards) = 5

\* ---------------------------------------------------------------- the raise
\* A step of handlePlayerAction with a raise.
raiseStep == actionStep /\ gameState'.actionHistory # <<>>
               /\ gameState'.actionHistory[Len(gameState'.actionHistory)].action = "raise"
               /\ Len(gameState'.actionHistory) = Len(history) + 1

\* C20: a raise to the amount A commits T = min(A, stack + currentBet) for the
\* street: the raiser's stack loses T less the previous currentBet, the
\* raiser's currentBet and the table's currentBet become T (seen while the
\* street stays open), and the raiser is all-in exactly when the stack is 0.
C20_RaiseCommitsTotal ==
    [][raiseStep =>
          LET i == gameState.currentPlayerIndex
              before == gameState.players[i]
              after  == gameState'.players[i]
              A == gameState'.actionHistory[Len(gameState'.actionHistory)].amount
              T == Min(A, before.stack + before.currentBet)
          IN /\ after.stack = before.stack - (T - before.currentBet)
             /\ after.isAllIn <=> after.stack = 0
             /\ ~streetCompleteStep => /\ after.currentBet = T
                                       /\ gameState'.currentBet = T]_vars

\* ------------------------------------------------------- the betting round
\* The record handlePlayerAction has just appended, and the action it records.
newRecord == gameState'.actionHistory[Len(gameState'.actionHistory)]

recordedStep == actionStep /\ Len(gameState'.actionHistory) = Len(history) + 1

\* The players and the table bet as processPlayerAction leaves them in this
\* step, before the hook collects the bets of a finished street.
actionResult ==
    processPlayerAction([type |-> newRecord.action, amount |-> newRecord.amount],
                        gameState.players[gameState.currentPlayerIndex], gameState)

updatedPlayers ==
    [gameState.players EXCEPT ![gameState.currentPlayerIndex] = actionResult.updatedPlayer]

\* C21: an action closes the street only if every player who is neither
\* folded nor all-in has matched the table's currentBet; otherwise the street
\* stays open and the turn passes to the next seat that is neither folded nor
\* all-in.
C21_StreetClosesOnlyWhenMatched ==
    [][(recordedStep /\ ~isHandOver(updatedPlayers)) =>
          LET matched == \A i \in activeSeats(updatedPlayers) :
                            updatedPlayers[i].currentBet = actionResult.newCurrentBet
          IN IF matched THEN streetCompleteStep
             ELSE /\ ~streetCompleteStep
                  /\ gameState'.phase = "betting"
                  /\ gameState'.bettingRound = gameState.bettingRound
                  /\ gameState'.currentPlayerIndex \in activeSeats(gameState'.players)
                  /\ gameState'.currentPlayerIndex =
                        getNextPlayerIndex(updatedPlayers, gameState.currentPlayerIndex)]_vars

\* ----------------------------------------------------------------- the call
\* A step of handlePlayerAction with a call.
callStep == recordedStep /\ newRecord.action = "call"

\* C22: a call moves min(currentBet - player.currentBet, player.stack) chips,
\* never a negative amount, from the caller's stack to the caller's street
\* bet (seen while the street stays open), leaves the table's currentBet
\* unchanged, and the caller is all-in exactly when the stack has reached 0.
C22_CallMovesTheDifference ==
    [][callStep =>
          LET i == gameState.currentPlayerIndex
              before == gameState.players[i]
              after  == gameState'.players[i]
              moved  == Min(gameState.currentBet - before.currentBet, before.stack)
          IN /\ moved >= 0
             /\ after.stack = before.stack - moved
             /\ after.isAllIn <=> after.stack = 0
             /\ ~streetCompleteStep => /\ after.currentBet = before.currentBet + moved
                                       /\ gameState'.currentBet = gameState.currentBet]_vars

\* --------------------------------------------------------------- the all-in
\* A step of handlePlayerAction with an all-in.
allInStep == recordedStep /\ newRecord.action = "all-in"

\* C23: an all-in commits the whole remaining stack: afterwards the player's
\* stack is 0 and isAllIn is true; while the street stays open the player's
\* currentBet has grown by the former stack, and the table's currentBet is the
\* player's new total if that total exceeds it and is unchanged otherwise.
C23_AllInCommitsTheStack ==
    [][allInStep =>
          LET i == gameState.currentPlayerIndex
              before == gameState.players[i]
              after  == gameState'.players[i]
              total  == before.currentBet + before.stack
          IN /\ after.stack = 0
             /\ after.isAllIn
             /\ ~streetCompleteStep =>
                   /\ after.currentBet = total
                   /\ gameState'.currentBet =
                         IF total > gameState.currentBet THEN total
                         ELSE gameState.currentBet]_vars

\* C23 witness: the last action of the open street is an all-in for a total
\* below the table's currentBet, which it has left alone.
C23_Witness ==
    /\ gameState.phase = "betting"
    /\ history # <<>>
    /\ lastRecord.action = "all-in"
    /\ lastRecord.bettingRound = gameState.bettingRound
    /\ lastRecord.amount > 0
    /\ gameState.players[lastRecord.player].stack = 0
    /\ gameState.players[lastRecord.player].isAllIn
    /\ gameState.players[lastRecord.player].currentBet < gameState.currentBet

\* -------------------------------------------------------------- all-in flag
\* C24: in every state of a hand a player is flagged isAllIn if and only if
\* that player's stack is 0.
C24_AllInIffStackEmpty ==
    gameState.phase \in {"betting", "showdown"} =>
        \A i \in seats : gameState.players[i].isAllIn <=> gameState.players[i].stack = 0

\* ----------------------------------------------------------- action history
\* C25: actionHistory is an append-only log within a hand: every
\* handlePlayerAction, whichever branch it takes, leaves the previous history
\* followed by exactly one new record, of the acting seat on the street it
\* acted on; startNewHand empties it, and nothing else changes it.
C25_HistoryIsAppendOnly ==
    [][IF actionStep /\ ~deckError'
       THEN /\ Len(gameState'.actionHistory) = Len(history) + 1
            /\ SubSeq(gameState'.actionHistory, 1, Len(history)) = history
            /\ newRecord.player = gameState.currentPlayerIndex
            /\ newRecord.bettingRound = gameState.bettingRound
       ELSE IF startStep THEN gameState'.actionHistory = <<>>
       ELSE gameState'.actionHistory = history]_vars

\* C25 witness: the history holds records of two streets, the last of them
\* appended on the street that is still open.
C25_Witness ==
    /\ gameState.phase = "betting"
    /\ Len(history) >= 3
    /\ history[1].bettingRound = "preflop"
    /\ gameState.bettingRound # "preflop"
    /\ lastRecord.bettingRound = gameState.bettingRound

\* ------------------------------------------------------- an unmatched check
\* A step of handlePlayerAction with a check by a player whose currentBet
\* differs from the table's currentBet.
illegalCheckStep ==
    /\ recordedStep
    /\ newRecord.action = "check"
    /\ ~canCheck(gameState.players[gameState.currentPlayerIndex], gameState.currentBet)

\* C26: a check applied while the player's currentBet differs from the
\* table's currentBet is not refused: it moves no chips (every stack and
\* currentBet, the pot and the table's currentBet are unchanged), it is
\* recorded in actionHistory, and the turn passes to the next player.
C26_IllegalCheckIsAccepted ==
    [][illegalCheckStep =>
          /\ ~deckError'
          /\ gameState'.players = gameState.players
          /\ gameState'.pot = gameState.pot
          /\ gameState'.currentBet = gameState.currentBet
          /\ newRecord = [player |-> gameState.currentPlayerIndex,
                          action |-> "check",
                          amount |-> 0,
                          bettingRound |-> gameState.bettingRound]
          /\ gameState'.phase = "betting"
          /\ gameState'.bettingRound = gameState.bettingRound
          /\ gameState'.currentPlayerIndex # gameState.currentPlayerIndex
          /\ gameState'.currentPlayerIndex =
                getNextPlayerIndex(gameState.players, gameState.currentPlayerIndex)]_vars

\* C26 witness: the last action of the open street is a check by a player
\* whose currentBet is below the table's currentBet.
C26_Witness ==
    /\ gameState.phase = "betting"
    /\ history # <<>>
    /\ lastRecord.action = "check"
    /\ lastRecord.bettingRound = gameState.bettingRound
    /\ gameState.players[lastRecord.player].currentBet < gameState.currentBet
    /\ ~gameState.players[lastRecord.player].isFolded
    /\ gameState.players[lastRecord.player].stack > 0

\* ------------------------------------------------------------------ the outs
\* createDeck: every suit of SUITS in turn, with the ranks of RANKS.
createDeck == [i \in 1..(Len(SUITS) * Len(RANKS)) |-> i]

\* createDummyCards: the 2, 3, 4, 5, 6 of clubs, over and over.
createDummyCards(count) == [i \in 1..count |-> createCard(((i - 1) % 5) + 1, 3)]

countOuts(heroCards, communityCards) ==
    IF Len(communityCards) >= 5 THEN 0
    ELSE LET knownCards     == heroCards \o communityCards
             isKnown(card)  == \E k \in DOMAIN knownCards : knownCards[k] = card
             availableCards == SelectSeq(createDeck, LAMBDA card : ~isKnown(card))
             currentHand    ==
                 evaluateHand(IF Len(knownCards) >= 5 THEN knownCards
                              ELSE knownCards \o createDummyCards(5 - Len(knownCards)))
             newHand(card)  ==
                 LET newCommunity == Append(communityCards, card)
                 IN evaluateHand(heroCards \o newCommunity
                        \o createDummyCards(Max(0, 5 - Len(newCommunity))))
         IN Cardinality({i \in DOMAIN availableCards :
                            compareHands(newHand(availableCards[i]), currentHand) > 0})

\* Hole cards: A-K offsuit, 7-7, T-9 of hearts, 3-2 of clubs.
OutsHoleCards ==
    {<<createCard(13, 4), createCard(12, 2)>>,
     <<createCard(6, 1), createCard(6, 2)>>,
     <<createCard(9, 1), createCard(8, 1)>>,
     <<createCard(2, 3), createCard(1, 3)>>}

\* The boards are drawn from the Q, J and 8 of hearts, the 9 and 2 of
\* diamonds and the 4 of spades.
OutsBoardCards ==
    {createCard(11, 1), createCard(10, 1), createCard(7, 1),
     createCard(8, 2), createCard(1, 2), createCard(3, 4)}

\* countOuts is asked before the flop and on the flop, the turn and the river.
BoardSizes == {0, 3, 4, 5}

OutsCalls ==
    {[fn |-> "countOuts", heroCards |-> h, communityCards |-> b] :
        h \in OutsHoleCards, b \in handsFrom(OutsBoardCards, BoardSizes)}

InitOuts ==
    /\ InitIdle
    /\ call \in OutsCalls
    /\ returned = NoReturn

countsOuts ==
    /\ call.fn = "countOuts"
    /\ returned = NoReturn
    /\ returned' = [result |-> countOuts(call.heroCards, call.communityCards)]
    /\ UNCHANGED <<table, call>>

NextOuts == countsOuts

SpecOuts == InitOuts /\ [][NextOuts]_vars

counted == call.fn = "countOuts" /\ returned # NoReturn

\* The cards that are neither hole cards nor on the board.
unseenCards(heroCards, communityCards) ==
    {card \in 1..(Len(SUITS) * Len(RANKS)) :
        \A k \in DOMAIN (heroCards \o communityCards) :
            (heroCards \o communityCards)[k] # card}

\* The hand evaluated for the hero and a board, filled up to five cards.
paddedHand(heroCards, board, fill) ==
    evaluateHand(heroCards \o board \o createDummyCards(fill))

\* C27: countOuts returns 0 when 5 community cards are present, and
\* otherwise the number of unseen cards whose addition to the board raises the
\* ranking category of the hero's evaluated hand above that of the current
\* hand; a card that leaves the category unchanged is not counted.
C27_OutsRaiseTheCategory ==
    counted =>
        LET hero    == call.heroCards
            board   == call.communityCards
            current == paddedHand(hero, board, Max(0, 5 - Len(hero \o board)))
            improves(card) ==
                rankingValues(paddedHand(hero, Append(board, card),
                                         Max(0, 4 - Len(board))).ranking)
                    > rankingValues(current.ranking)
        IN returned.result =
              IF Len(board) = 5 THEN 0
              ELSE Cardinality({card \in unseenCards(hero, board) : improves(card)})

\* ------------------------------------------------------------ a turn for all
\* The seat has a record on the street in the history.
hasActedOn(log, seat, round) ==
    \E k \in DOMAIN log : log[k].player = seat /\ log[k].bettingRound = round

\* C28: when an action closes a street, every player who is neither folded
\* nor all-in has acted on that street at least once.
C28_EveryoneActsBeforeStreetCloses ==
    [][(recordedStep /\ streetCompleteStep) =>
          \A i \in activeSeats(updatedPlayers) :
              hasActedOn(gameState'.actionHistory, i, gameState.bettingRound)]_vars

\* --------------------------------------------------------------- the driver
\* isHeroTurn: the seat to act is the hero's, seat 0.
isHeroTurn == gameState.currentPlayerIndex = 0

\* What an opponent's decide returns: a fold, a check, a call, or a raise of
\* determineRaiseSize, which is 0 while the pot is empty and never more than
\* the stack.
aiInputs(gs) ==
    passiveInputs(gs)
      \cup {[type |-> "raise", amount |-> a] :
               a \in {0, Min(gs.minRaise, gs.players[gs.currentPlayerIndex].stack)}}

\* The hero acts through the action controls, shown on the hero's turn.
heroActs ==
    /\ isHeroTurn
    /\ \E action \in allInputs(gameState) : applyAction(action, MaxSteps)

\* The effect of useGameState lets an opponent act when it is at
\* currentPlayerIndex and is neither folded nor all-in.
aiActs ==
    /\ ~isHeroTurn
    /\ ~gameState.players[gameState.currentPlayerIndex].isFolded
    /\ ~gameState.players[gameState.currentPlayerIndex].isAllIn
    /\ \E action \in aiInputs(gameState) : applyAction(action, MaxSteps)

NextDriver == startNewHand \/ heroActs \/ aiActs

SpecDriver == Init /\ [][NextDriver]_vars

\* C29: no betting state is stuck: the seat to act is the hero's, who acts
\* through the controls, or an opponent that is neither folded nor all-in,
\* which the driver lets act; so every started hand goes on to its showdown.
C29_TurnNeverStuck ==
    (gameState.phase = "betting" /\ ~deckError) =>
        \/ isHeroTurn
        \/ /\ ~gameState.players[gameState.currentPlayerIndex].isFolded
           /\ ~gameState.players[gameState.currentPlayerIndex].isAllIn

\* ------------------------------------------------------------- the min raise
\* A step of handlePlayerAction with a fold, a check or a call that leaves the
\* hand and the street open.
passiveStep ==
    /\ recordedStep
    /\ newRecord.action \in {"fold", "check", "call"}
    /\ gameState'.phase = "betting"
    /\ ~streetCompleteStep

\* C30: a fold, check or call that does not end the street leaves the table's
\* currentBet and minRaise unchanged, so the size of the last raise is kept
\* after a call.
C30_PassiveActionKeepsMinRaise ==
    [][passiveStep => /\ gameState'.currentBet = gameState.currentBet
                      /\ gameState'.minRaise = gameState.minRaise]_vars

\* ----------------------------------------------------------------- the deck
\* The hole cards of the seats from index on, seat after seat.
RECURSIVE holeCardsFrom(_, _)
holeCardsFrom(players, index) ==
    IF index >= playerCount(players) THEN <<>>
    ELSE players[index].holeCards \o holeCardsFrom(players, index + 1)

\* Every card on the table: all hole cards, then the community cards.
cardsInPlay == holeCardsFrom(gameState.players, 0) \o gameState.communityCards

\* C11: within one hand all hole cards of all players and all community cards
\* are pairwise distinct cards.
C11_CardsDistinct ==
    gameState.phase \in {"betting", "showdown"} =>
        \A j, k \in DOMAIN cardsInPlay : j # k => cardsInPlay[j] # cardsInPlay[k]

====
